---- MODULE Spec2Model ----
(***************************************************************************)
(* A model of src/agents/parallel_task_scheduler.py: the ResourcePool and  *)
(* the ParallelTaskScheduler (task table, priority queue, scheduler tick,  *)
(* execute_task, execute_parallel_tasks, wait_for_dependencies).           *)
(*                                                                         *)
(* Reading of the source.  Every method body is modelled statement by      *)
(* statement under Python's semantics, exceptions included: a name that    *)
(* is not bound where it is used raises NameError, len(None) raises        *)
(* TypeError, TaskStatus.SUCCESS raises AttributeError, and comparing two  *)
(* (priority, task) queue entries of equal priority raises TypeError since *)
(* ParallelTask defines no ordering.  The exception then takes the path    *)
(* the source gives it (the except clauses of execute_task and of          *)
(* scheduler_loop, or the caller).                                         *)
(* Two defects stop the file from loading at all: the second `else:` of    *)
(* execute_parallel_tasks (line 721, body `pass`) and the field order of   *)
(* the ParallelAgent dataclass.  The model describes the scheduler object  *)
(* the definitions evidently stand for: the dangling else does nothing,    *)
(* and an agent is built with the defaults __post_init__ fills in.         *)
(***************************************************************************)
EXTENDS Integers, Sequences, FiniteSets, TLC

(* ---------------------------------------------------------------- bounds *)

\* Number of schedule_task calls the model follows.
MaxTasks == 3

\* ResourcePool.max_workers, min(32, cpu_count * 2) for a host with one CPU.
MaxWorkers == 2

\* ResourcePool.max_memory_percent (default of ResourcePool.__init__).
max_memory_percent == 80

\* resource_requirements.get('memory_mb', 10)
default_memory_mb == 10

PENDING == "pending"
RUNNING == "running"
COMPLETED == "completed"
FAILED == "failed"
CANCELLED == "cancelled"

TaskStatus == {PENDING, RUNNING, COMPLETED, FAILED, CANCELLED}

Terminal == {COMPLETED, FAILED, CANCELLED}

\* What get_memory_stats can return when the pool is built: psutil's figures
\* (here a host of 100 MB with 50 MB in use) or, without psutil, all zeros.
MemorySnapshots ==
    { [total |-> 100, used |-> 50], [total |-> 0, used |-> 0] }

\* The task_data submissions the model draws from.  Priorities 5 and 1 are
\* those of the specification's priority example; 40 MB does not fit under the ceiling of the 100 MB
\* host, 10 MB does; "file_operations" is served by a predefined agent,
\* "unknown" (the default task_type) by none.  A dependency list may name a
\* task that exists, one that is scheduled later, or the task itself.
TaskData ==
    { [task_type |-> "file_operations", priority |-> 5, dependencies |-> <<>>,
       memory_mb |-> default_memory_mb],
      [task_type |-> "unknown", priority |-> 1, dependencies |-> <<>>,
       memory_mb |-> default_memory_mb],
      [task_type |-> "unknown", priority |-> 5, dependencies |-> <<>>,
       memory_mb |-> 40],
      [task_type |-> "unknown", priority |-> 3, dependencies |-> <<>>,
       memory_mb |-> default_memory_mb],
      [task_type |-> "unknown", priority |-> 1, dependencies |-> <<1>>,
       memory_mb |-> default_memory_mb],
      [task_type |-> "file_operations", priority |-> 1, dependencies |-> <<3, 1>>,
       memory_mb |-> default_memory_mb] }

VARIABLES
    tasks,              \* self.tasks: task_id -> ParallelTask
    task_queue,         \* self.task_queue: the heap list of queue.PriorityQueue
    available_workers,  \* resource_pool.available_workers
    memory_stats,       \* resource_pool.memory_stats (snapshot taken once)
    agent_pool,         \* self.agent_pool: agent_id -> ParallelAgent
    tick,               \* the scheduler thread inside process_ready_tasks
    futures,            \* executor: task_id -> state of its submitted execute_task
    client,             \* the calling thread (schedule / execute_parallel_*)
    calls,              \* history: per task, the calls made on it so far
    task_status_stats,  \* self.task_status_stats: task_id -> status
    now,                \* datetime.now(), in hours since the scheduler was built
    last_call,          \* history: the last direct call of an agent method
    schedule_stats,     \* self.schedule_stats: the three counters and the
                        \* average execution time
    scheduler,          \* scheduler_running, the loop thread, the executor,
                        \* and the position of a stop_scheduler call
    pool_calls          \* task_id -> the execute_with_threadpool call made on
                        \* it: where the caller is, and the state of the
                        \* execute_task_in_thread it submitted

vars == <<tasks, task_queue, available_workers, memory_stats, agent_pool,
          tick, futures, client, calls, task_status_stats, now, last_call,
          schedule_stats, scheduler, pool_calls>>

(* ------------------------------------------------------- priority queue *)

\* A queue entry is the tuple (-task.priority, task) of schedule_task; the
\* heap holds task ids and the key is read from the task table.
QueueKey(ts, t) == 0 - ts[t].priority

\* entry a < entry b, as Python compares the tuples: by key, and on equal
\* keys by the tasks themselves, which ParallelTask (a dataclass without
\* order=True) does not support.
EntryLess(ts, a, b) ==
    IF QueueKey(ts, a) < QueueKey(ts, b) THEN "True"
    ELSE IF QueueKey(ts, a) > QueueKey(ts, b) THEN "False"
    ELSE "TypeError"

Swap(h, i, j) == [h EXCEPT ![i] = h[j], ![j] = h[i]]

\* heapq's siftdown(heap, 0, pos): follow the path to the root, moving
\* parents down until the item at pos fits.  A failed comparison leaves the
\* list as it is at that moment.
RECURSIVE SiftDown(_, _, _)
SiftDown(ts, h, pos) ==
    IF pos = 1 THEN [heap |-> h, ok |-> TRUE]
    ELSE LET parent == pos \div 2
             lt == EntryLess(ts, h[pos], h[parent])
         IN  IF lt = "TypeError" THEN [heap |-> h, ok |-> FALSE]
             ELSE IF lt = "False" THEN [heap |-> h, ok |-> TRUE]
             ELSE SiftDown(ts, Swap(h, pos, parent), parent)

\* heapq's siftup(heap, pos): bubble the smaller child up until a leaf is
\* hit, then sift the displaced item back toward the root.
RECURSIVE SiftUp(_, _, _)
SiftUp(ts, h, pos) ==
    IF pos > Len(h) \div 2 THEN SiftDown(ts, h, pos)
    ELSE LET left == 2 * pos
             right == 2 * pos + 1
             lt == IF right <= Len(h) THEN EntryLess(ts, h[left], h[right])
                   ELSE "True"
         IN  IF lt = "TypeError" THEN [heap |-> h, ok |-> FALSE]
             ELSE LET child == IF lt = "True" THEN left ELSE right
                  IN  SiftUp(ts, Swap(h, pos, child), child)

\* task_queue.put((priority, task)): the entry is appended and sifted; when
\* a comparison raises, the entry is already in the list.
QueuePut(ts, h, t) == SiftDown(ts, Append(h, t), Len(h) + 1)

\* task_queue.get() on a non-empty queue: the last entry replaces the root
\* and is sifted; when a comparison raises, the root entry is gone and
\* nothing is returned.
QueueGet(ts, h) ==
    LET last == h[Len(h)]
        rest == SubSeq(h, 1, Len(h) - 1)
    IN  IF rest = <<>> THEN [heap |-> rest, ok |-> TRUE, item |-> last]
        ELSE LET r == SiftUp(ts, [rest EXCEPT ![1] = last], 1)
             IN  [heap |-> r.heap, ok |-> r.ok, item |-> h[1]]

Queued(h) == { h[i] : i \in 1..Len(h) }

(* -------------------------------------------------------- resource pool *)

\* ResourcePool.can_allocate_task: "True", "False", or the ZeroDivisionError
\* of used / total when the memory snapshot is the psutil-less one.
\* used/total*100 + mb/total*100 <= ceiling is compared in whole megabytes
\* (one megabyte of the requirement is one unit of the snapshot).
can_allocate_task(aw, mem, memory_required) ==
    IF aw <= 0 THEN "False"
    ELSE IF mem.total = 0 THEN "ZeroDivisionError"
    ELSE IF (mem.used + memory_required) * 100 <= max_memory_percent * mem.total
         THEN "True" ELSE "False"

\* allocate_resources without the test of line 151.
allocate_resources_unguarded(ts, aw, t) ==
    [tasks |-> [ts EXCEPT ![t].status = RUNNING], workers |-> aw - 1,
     result |-> TRUE]

\* ResourcePool.allocate_resources, on the pair (task table, free workers):
\* the task is set RUNNING whatever its status was.
allocate_resources(ts, aw, t) ==
    IF aw > 0
    THEN [tasks |-> [ts EXCEPT ![t].status = RUNNING], workers |-> aw - 1,
          result |-> TRUE]
    ELSE [tasks |-> ts, workers |-> aw, result |-> FALSE]

\* release_resources with the task made COMPLETED whatever its status.
release_resources_any_status(ts, aw, t) ==
    [tasks |-> [ts EXCEPT ![t].status = COMPLETED], workers |-> aw + 1]

\* ResourcePool.release_resources: the worker count goes up by one for any
\* task, and a RUNNING task is made COMPLETED.
release_resources(ts, aw, t) ==
    [tasks |-> IF ts[t].status = RUNNING THEN [ts EXCEPT ![t].status = COMPLETED]
               ELSE ts,
     workers |-> aw + 1]

(* --------------------------------------------------------------- agents *)

\* register_predefined_agents, run by __init__ through load_registered_agents:
\* every agent starts IDLE with current_task None.
AgentOrder == <<"file_operations", "code_generator", "tool_executor",
                "agent_interceptor">>

\* current_task is an Optional[str]: None, or <<task id>>.
NoTask == <<>>

\* A float is kept as the exact fraction n/d, d > 0.
Frac(n, d) == [n |-> n, d |-> d]

FracAdd(a, b) == Frac(a.n * b.d + b.n * a.d, a.d * b.d)

FracMul(a, b) == Frac(a.n * b.n, a.d * b.d)

FracLess(a, b) == a.n * b.d < b.n * a.d

RECURSIVE GCD(_, _)
GCD(a, b) == IF b = 0 THEN a ELSE GCD(b, a % b)

\* The fraction in lowest terms: equal floats are one value.
Lowest(f) == Frac(f.n \div GCD(f.n, f.d), f.d \div GCD(f.n, f.d))

\* A performance_metrics dict with its three keys, in insertion order.
Metrics(response_time, success_rate, efficiency) ==
    [response_time |-> response_time, success_rate |-> success_rate,
     efficiency |-> efficiency]

\* The dict {} that register_agent passes when the config has no metrics.
NoMetrics == [k \in {} |-> Frac(1, 1)]

\* The defaults of ParallelAgent.__post_init__ and update_agent_metrics.
DefaultMetrics == Metrics(Frac(1, 1), Frac(1, 1), Frac(1, 1))

PredefinedMetrics(a) ==
    CASE a = "file_operations" -> Metrics(Frac(5, 10), Frac(9, 10), Frac(85, 100))
      [] a = "code_generator" -> Metrics(Frac(20, 10), Frac(8, 10), Frac(75, 100))
      [] a = "tool_executor" -> Metrics(Frac(15, 10), Frac(85, 100), Frac(8, 10))
      [] OTHER -> Metrics(Frac(8, 10), Frac(9, 10), Frac(9, 10))

PredefinedAgents ==
    [a \in Queued(AgentOrder) |->
        [status |-> "idle",
         current_task |-> NoTask,
         performance_metrics |-> PredefinedMetrics(a),
         task_history |-> <<>>,
         supported_task_types |->
            CASE a = "file_operations" ->
                    {"file_operations", "directory_management", "path_operations"}
              [] a = "code_generator" ->
                    {"code_generation", "code_analysis", "code_optimization"}
              [] a = "tool_executor" ->
                    {"tool_execute", "command_execution", "process_management"}
              [] OTHER -> {"task_filtering", "task_routing", "parallel_coordination"},
         max_concurrent_tasks |->
            CASE a = "file_operations" -> 3
              [] a = "code_generator" -> 2
              [] a = "tool_executor" -> 3
              [] OTHER -> 5]]

\* len(agent.current_task): current_task is None or a task id string
\* "task_YYYYmmdd_HHMMSS_n", 22 characters or more.
task_id_len == 22

\* One agent's test in has_available_agent_for_task / find_suitable_agent.
\* `and` short-circuits, so len() is reached only by an IDLE agent that
\* supports the type, and raises on None.
AgentTest(agent, task_type) ==
    IF agent.status # "idle" THEN "False"
    ELSE IF task_type \notin agent.supported_task_types THEN "False"
    ELSE IF agent.current_task = NoTask THEN "TypeError"
    ELSE IF task_id_len < agent.max_concurrent_tasks THEN "True" ELSE "False"

\* The agent_config dicts register_agent is called with after construction:
\* a new id with or without metrics of its own, with max_concurrent 1 or 0,
\* and an id that is registered already.  performance_metrics is <<>> when
\* the key is absent and <<dict>> when it is given.
AgentConfigs ==
    { [agent_id |-> "custom", supported_tasks |-> {"unknown"},
       max_concurrent |-> 1, performance_metrics |-> <<>>],
      [agent_id |-> "custom", supported_tasks |-> {"unknown"},
       max_concurrent |-> 0, performance_metrics |-> <<>>],
      [agent_id |-> "custom", supported_tasks |-> {"unknown"},
       max_concurrent |-> 1,
       performance_metrics |-> <<Metrics(Frac(0, 1), Frac(3, 2), Frac(1, 1))>>],
      [agent_id |-> "file_operations", supported_tasks |-> {"file_operations"},
       max_concurrent |-> 1, performance_metrics |-> <<>>] }

\* register_agent: agent_config.get('performance_metrics', {}) hands {} (not
\* None) to the dataclass, so __post_init__ leaves the metrics empty; the
\* record is stored under agent_id whether or not the id was there.
register_agent(ap, config) ==
    [a \in DOMAIN ap \cup {config.agent_id} |->
        IF a = config.agent_id
        THEN [status |-> "idle",
              current_task |-> NoTask,
              performance_metrics |->
                 IF config.performance_metrics = <<>> THEN NoMetrics
                 ELSE config.performance_metrics[1],
              task_history |-> <<>>,
              supported_task_types |-> config.supported_tasks,
              max_concurrent_tasks |-> config.max_concurrent]
        ELSE ap[a]]

\* The order of self.agent_pool.items(): a dict keeps the order in which its
\* keys were first inserted.
PoolOrder(ap) ==
    IF "custom" \in DOMAIN ap THEN Append(AgentOrder, "custom") ELSE AgentOrder

\* has_available_agent_for_task: the agents are tried in registration order.
RECURSIVE AnyAgentFrom(_, _, _)
AnyAgentFrom(ap, task_type, i) ==
    IF i > Len(PoolOrder(ap)) THEN "False"
    ELSE LET r == AgentTest(ap[PoolOrder(ap)[i]], task_type)
         IN  IF r = "False" THEN AnyAgentFrom(ap, task_type, i + 1) ELSE r

has_available_agent_for_task(ap, task_type) == AnyAgentFrom(ap, task_type, 1)

\* old * w/10 + y * (10 - w)/10, the moving averages of update_agent_metrics
\* (y is a whole number).
Average(old, w, y) ==
    Lowest(Frac(old.n * w + y * (10 - w) * old.d, old.d * 10))

\* agent.task_history[-50:]
history_limit == 50

\* The slice [:k] in place of [-k:].
FirstOf(seq, k) ==
    IF Len(seq) > k THEN SubSeq(seq, 1, k) ELSE seq

LastOf(seq, k) ==
    IF Len(seq) > k THEN SubSeq(seq, Len(seq) - k + 1, Len(seq)) ELSE seq

\* update_agent_metrics(agent, execution_time, success).  Empty metrics are
\* replaced by the defaults; response_time and success_rate are averaged in
\* place when the old value is positive.  Line 485 then reads the unbound
\* name response_time whenever the old response time was positive: NameError,
\* with efficiency and task_history untouched.  Otherwise efficiency is
\* averaged with 1.0 and the call is appended to the history.
update_agent_metrics(agent, execution_time, success) ==
    LET pm == IF DOMAIN agent.performance_metrics = {} THEN DefaultMetrics
              ELSE agent.performance_metrics
        rt == IF pm.response_time.n > 0
              THEN Average(pm.response_time, 8, execution_time)
              ELSE pm.response_time
        sr == IF pm.success_rate.n > 0
              THEN Average(pm.success_rate, 9, IF success THEN 1 ELSE 0)
              ELSE pm.success_rate
    IN  IF pm.response_time.n > 0
        THEN [agent |-> [agent EXCEPT !.performance_metrics =
                            Metrics(rt, sr, pm.efficiency)],
              raised |-> TRUE]
        ELSE [agent |-> [agent EXCEPT
                  !.performance_metrics = Metrics(rt, sr, Average(pm.efficiency, 8, 1)),
                  !.task_history = LastOf(Append(agent.task_history, success),
                                          history_limit)],
              raised |-> FALSE]

\* sum(1 for task in recent_tasks if task.get('success', False))
RECURSIVE Successes(_)
Successes(seq) ==
    IF seq = <<>> THEN 0
    ELSE (IF Head(seq) THEN 1 ELSE 0) + Successes(Tail(seq))

\* calculate_agent_suitability_score, for an agent whose current_task is a
\* task id (find_suitable_agent calls it after len(agent.current_task)
\* succeeded): 0.4 for the type, 0.3 times the first metric, 0.2 times the
\* free share of the load, 0.1 times the success share of the last five.
calculate_agent_suitability_score(agent, task_type) ==
    LET type == IF task_type \in agent.supported_task_types
                THEN Frac(4, 10) ELSE Frac(0, 10)
        perf == IF DOMAIN agent.performance_metrics = {} THEN Frac(0, 10)
                ELSE FracMul(agent.performance_metrics.response_time, Frac(3, 10))
        most == IF agent.max_concurrent_tasks > 1 THEN agent.max_concurrent_tasks
                ELSE 1
        load == FracMul(Frac(most - task_id_len, most), Frac(2, 10))
        recent == LastOf(agent.task_history, 5)
        hist == IF recent = <<>> THEN Frac(0, 10)
                ELSE FracMul(Frac(Successes(recent), Len(recent)), Frac(1, 10))
    IN  FracAdd(FracAdd(type, perf), FracAdd(load, hist))

\* find_suitable_agent, lines 418-425: the agents that pass the test, in
\* pool order; the test of an IDLE agent of the type that holds no task
\* raises TypeError and ends the loop.
RECURSIVE SuitableFrom(_, _, _, _)
SuitableFrom(ap, task_type, i, found) ==
    IF i > Len(PoolOrder(ap)) THEN [raised |-> FALSE, agents |-> found]
    ELSE LET a == PoolOrder(ap)[i]
             r == AgentTest(ap[a], task_type)
         IN  IF r = "TypeError" THEN [raised |-> TRUE, agents |-> found]
             ELSE SuitableFrom(ap, task_type, i + 1,
                               IF r = "True" THEN Append(found, a) ELSE found)

\* The first IDLE agent of the type, whatever it holds and whatever its
\* max_concurrent_tasks.
find_first_supporting_agent(ap, task_type) ==
    LET fit == { i \in 1..Len(PoolOrder(ap)) :
                   /\ ap[PoolOrder(ap)[i]].status = "idle"
                   /\ task_type \in ap[PoolOrder(ap)[i]].supported_task_types }
    IN  IF fit = {} THEN "None"
        ELSE PoolOrder(ap)[CHOOSE i \in fit : \A j \in fit : i <= j]

\* find_suitable_agent: "TypeError", "None", or the id of the first agent of
\* the highest score (the sort is stable).
find_suitable_agent(ap, task_type) ==
    LET s == SuitableFrom(ap, task_type, 1, <<>>)
        score(i) == calculate_agent_suitability_score(ap[s.agents[i]], task_type)
    IN  IF s.raised THEN "TypeError"
        ELSE IF s.agents = <<>> THEN "None"
        ELSE s.agents[CHOOSE i \in 1..Len(s.agents) :
                        /\ \A j \in 1..Len(s.agents) : ~ FracLess(score(i), score(j))
                        /\ \A j \in 1..(i - 1) : FracLess(score(j), score(i))]

\* execute_with_agent(task): find_suitable_agent is called outside the try,
\* so its TypeError leaves the method; without an agent the method returns
\* (False, "No suitable agent available"); with one, lines 319-321 bind it
\* to the task and line 322 reads the unbound name task_id: NameError, which
\* leaves the method with the agent BUSY.
execute_with_agent(ap, t, task_type) ==
    LET a == find_suitable_agent(ap, task_type)
    IN  IF a = "TypeError" THEN [pool |-> ap, result |-> "TypeError"]
        ELSE IF a = "None" THEN [pool |-> ap, result |-> "No suitable agent available"]
        ELSE [pool |-> [ap EXCEPT ![a].current_task = <<t>>, ![a].status = "busy"],
              result |-> "NameError"]

(* ---------------------------------------------------------------- tasks *)

NoCalls == [allocated |-> 0, refused |-> 0, released |-> 0, executed |-> 0,
            finished |-> 0, agent_path |-> 0, pool_path |-> 0]

\* Ids of one clock reading are told apart by len(self.tasks) alone; the
\* clock reading takes the places above TaskIdBase.
TaskIdBase == 10

\* f"task_{datetime.now().strftime('%Y%m%d_%H%M%S')}_{len(self.tasks)}": the
\* clock reading `at` and the size of the table (counted from 1 here).
NewTaskId(ts, at) == at * TaskIdBase + Cardinality(DOMAIN ts) + 1

\* An Optional[datetime]: None, or <<hour>>.
NoTime == <<>>

\* task_data.get('max_wait_time', 604800), in seconds.
default_max_wait_time == 604800

\* The ParallelTask schedule_task builds; command and max_wait_time are read
\* with .get and a default, like the other keys.
NewTask(data) ==
    [task_type |-> data.task_type, priority |-> data.priority,
     status |-> PENDING, started_at |-> "None", completed_at |-> NoTime,
     error |-> "None", dependencies |-> data.dependencies,
     memory_mb |-> data.memory_mb,
     command |-> IF "command" \in DOMAIN data THEN data.command ELSE "",
     max_wait_time |-> IF "max_wait_time" \in DOMAIN data
                       THEN data.max_wait_time ELSE default_max_wait_time]

Extend(f, k, v) == [x \in DOMAIN f \cup {k} |-> IF x = k THEN v ELSE f[x]]

\* schedule_task: the record enters self.tasks under the new id, replacing
\* a record that has this id already, then the queue; `raised` tells that
\* put raised and the call did not return an id.
schedule_task(ts, h, data, at) ==
    LET id == NewTaskId(ts, at)
        ts2 == Extend(ts, id, NewTask(data))
        p == QueuePut(ts2, h, id)
    IN  [tasks |-> ts2, queue |-> p.heap, raised |-> ~p.ok, id |-> id]

\* execute_task, lines 266-267.
execute_task_begin(ts, t) ==
    [ts EXCEPT ![t].status = RUNNING, ![t].started_at = "set"]

\* The failure of one execute_task written to every task that is RUNNING.
execute_task_except_running(ts, t, at) ==
    [u \in DOMAIN ts |->
        IF u = t \/ ts[u].status = RUNNING
        THEN [ts[u] EXCEPT !.status = FAILED, !.error = "NameError",
                           !.completed_at = <<at>>]
        ELSE ts[u]]

\* execute_task, line 268 onward: task_id is not a name of this scope, so the
\* statement raises NameError before an execution method is chosen; the
\* except clause records the failure (292-294) and its logger.error line
\* names task_id again, so the NameError leaves execute_task and lines
\* 297-300 do not run.
execute_task_except(ts, t, at) ==
    [ts EXCEPT ![t].status = FAILED, ![t].error = "NameError",
               ![t].completed_at = <<at>>]

\* are_dependencies_met: the loop returns at its first dependency.  A
\* missing record answers False; a record that exists makes the status list
\* [COMPLETED, SUCCESS] be built, and TaskStatus has no SUCCESS.
are_dependencies_met(ts, t) ==
    IF ts[t].dependencies = <<>> THEN "True"
    ELSE IF ts[t].dependencies[1] \notin DOMAIN ts THEN "False"
    ELSE "AttributeError"

\* wait_for_dependencies up to its first call of execute_task: the index of
\* the first dependency that exists and is PENDING, or 0 when the loop ends
\* without one (the method then returns True).
RECURSIVE FirstPendingDep(_, _, _)
FirstPendingDep(ts, deps, i) ==
    IF i > Len(deps) THEN 0
    ELSE IF deps[i] \in DOMAIN ts /\ ts[deps[i]].status = PENDING THEN deps[i]
    ELSE FirstPendingDep(ts, deps, i + 1)

wait_for_dependencies(ts, t) == FirstPendingDep(ts, ts[t].dependencies, 1)

\* How a call of wait_for_dependencies ends.  A PENDING dependency is handed
\* to execute_task (line 757), whose NameError leaves the method; lines
\* 758-773 are never reached.  Every other dependency, missing or in any
\* other status, is passed over, and the method returns True (line 781).
wait_for_dependencies_result(ts, t) ==
    IF wait_for_dependencies(ts, t) = 0 THEN "True" ELSE "NameError"

(* ------------------------------------------------------------ retention *)

\* max_age_hours of cleanup_completed_tasks.
max_age_hours == 24

\* Expired with the age compared by >= in place of >.
ExpiredAtBoundary(task, at) ==
    /\ task.completed_at # NoTime
    /\ (at - task.completed_at[1]) * 3600 >= max_age_hours * 3600
    /\ task.status \in {COMPLETED, FAILED}

\* The test of lines 603-605 on one task, at time `at`: completed_at is set,
\* lies more than max_age_hours back, and the status is COMPLETED or FAILED.
Expired(task, at) ==
    /\ task.completed_at # NoTime
    /\ (at - task.completed_at[1]) * 3600 > max_age_hours * 3600
    /\ task.status \in {COMPLETED, FAILED}

\* cleanup_completed_tasks: the ids that pass the test are deleted from
\* self.tasks and, where present, from self.task_status_stats.
cleanup_completed_tasks(ts, stats, at) ==
    LET tasks_to_remove == { t \in DOMAIN ts : Expired(ts[t], at) }
    IN  [tasks |-> [t \in DOMAIN ts \ tasks_to_remove |-> ts[t]],
         stats |-> [t \in DOMAIN stats \ tasks_to_remove |-> stats[t]]]

(* ------------------------------------------------------- scheduler tick *)

\* process_ready_tasks, lines 541-550: entries are taken while the pool
\* admits them; the first one refused is put back and the loop ends.  An
\* exception of get, can_allocate_task or put leaves the method, and with it
\* the tasks collected so far.
RECURSIVE Drain(_, _, _, _, _)
Drain(ts, h, aw, mem, ready) ==
    IF h = <<>> THEN [queue |-> h, ready |-> ready, raised |-> FALSE]
    ELSE LET g == QueueGet(ts, h)
             can == can_allocate_task(aw, mem, ts[g.item].memory_mb)
         IN  IF ~g.ok \/ can = "ZeroDivisionError"
             THEN [queue |-> g.heap, ready |-> ready, raised |-> TRUE]
             ELSE IF can = "True"
             THEN Drain(ts, g.heap, aw, mem, Append(ready, g.item))
             ELSE LET p == QueuePut(ts, g.heap, g.item)
                  IN  [queue |-> p.heap, ready |-> ready, raised |-> ~p.ok]

\* process_ready_tasks, lines 556-560: each ready task is allocated in turn
\* and, when that succeeds, submitted to the executor.
RECURSIVE AllocateFrom(_, _, _, _, _)
AllocateFrom(ts, aw, ready, i, submitted) ==
    IF i > Len(ready) THEN [tasks |-> ts, workers |-> aw, submitted |-> submitted]
    ELSE LET a == allocate_resources(ts, aw, ready[i])
         IN  AllocateFrom(a.tasks, a.workers, ready, i + 1,
                          IF a.result THEN Append(submitted, ready[i])
                          ELSE submitted)

\* process_ready_tasks, lines 578-583: every ready task is released.
\* update_agent_status_after_task finds no agent whose current_task is the
\* task id and changes nothing.
RECURSIVE ReleaseFrom(_, _, _, _)
ReleaseFrom(ts, aw, ready, i) ==
    IF i > Len(ready) THEN [tasks |-> ts, workers |-> aw]
    ELSE LET r == release_resources(ts, aw, ready[i])
         IN  ReleaseFrom(r.tasks, r.workers, ready, i + 1)

TickIdle == [pc |-> "idle", ready |-> <<>>, submitted |-> <<>>]

NoFutures == [t \in {} |-> "done"]

\* The caller's thread: where it is, the task under its cursor, the first
\* and last id of the list execute_parallel_tasks scheduled, the locals
\* completed_tasks and task_results of that method, and what its last call
\* returned (nothing, or one dict).
ClientIdle ==
    [pc |-> "idle", task |-> 0, first |-> 0, last |-> 0,
     completed_tasks |-> 0, task_results |-> <<>>, returned |-> <<>>]

\* The dict execute_parallel_tasks returns (lines 735-740).  failed_tasks
\* is the length of a list that holds one boolean per entry of
\* task_results.
execute_parallel_tasks_return(total_tasks, completed_tasks, task_results) ==
    [total_tasks |-> total_tasks,
     completed_tasks |-> completed_tasks,
     failed_tasks |-> Len(task_results),
     task_results |-> task_results]

\* A direct call: the method, its argument (an agent id or a task type),
\* what came back or was raised, and whether the config of a register_agent
\* call carried metrics.
Called(op, arg, result, detail) ==
    [op |-> op, arg |-> arg, result |-> result, detail |-> detail]

NoCall == Called("none", "none", "none", "none")

\* No thread is inside execute_with_threadpool.
NoPoolCalls == [t \in {} |-> [caller |-> "waiting", nested |-> "queued"]]

\* scheduler_running, the loop thread (None, alive, or ended), the executor
\* (open, closing once shutdown was called, shut down once it returned) and
\* the position of a stop_scheduler call, as __init__ leaves them.
SchedulerBuilt ==
    [running |-> FALSE, thread |-> "none", executor |-> "open", stop |-> "idle"]

(* ----------------------------------------------------------------- Init *)

\* ParallelTaskScheduler.__init__ and ResourcePool.__init__.
Init ==
    /\ tasks = [t \in {} |-> NewTask(CHOOSE d \in TaskData : TRUE)]
    /\ task_queue = <<>>
    /\ available_workers = MaxWorkers
    /\ memory_stats \in MemorySnapshots
    /\ agent_pool = PredefinedAgents
    /\ tick = TickIdle
    /\ futures = NoFutures
    /\ client = ClientIdle
    /\ calls = [t \in {} |-> NoCalls]
    /\ task_status_stats = [t \in {} |-> PENDING]
    /\ now = 0
    /\ last_call = NoCall
    /\ schedule_stats = [total_scheduled |-> 0, total_completed |-> 0,
                         total_failed |-> 0,
                         average_execution_time |-> Frac(0, 1)]
    /\ scheduler = SchedulerBuilt
    /\ pool_calls = NoPoolCalls

Bump(c, ids, field) ==
    [t \in DOMAIN c |->
        IF t \in ids THEN [c[t] EXCEPT ![field] = @ + 1] ELSE c[t]]

(* ------------------------------------------------------ the caller side *)

\* schedule_task called on its own, while fewer than `limit` tasks exist.
Schedule(data, limit) ==
    /\ client.pc = "idle"
    /\ Cardinality(DOMAIN tasks) < limit
    /\ LET s == schedule_task(tasks, task_queue, data, now)
       IN  /\ tasks' = s.tasks
           /\ task_queue' = s.queue
           /\ calls' = Extend(calls, s.id, NoCalls)
           /\ task_status_stats' = Extend(task_status_stats, s.id, PENDING)
           /\ schedule_stats' = [schedule_stats EXCEPT !.total_scheduled = @ + 1]
    /\ UNCHANGED <<available_workers, memory_stats, agent_pool, tick, futures,
                   client, now, last_call, scheduler, pool_calls>>

ScheduleTask(data) == Schedule(data, MaxTasks)

\* execute_parallel_task (module level): schedule_task, then execute_task on
\* the new task in the caller's thread.  The task stays in the queue.
ExecuteParallelTask(data) ==
    /\ client.pc = "idle"
    /\ Cardinality(DOMAIN tasks) < MaxTasks
    /\ LET s == schedule_task(tasks, task_queue, data, now)
       IN  /\ tasks' = s.tasks
           /\ task_queue' = s.queue
           /\ calls' = Extend(calls, s.id, NoCalls)
           /\ task_status_stats' = Extend(task_status_stats, s.id, PENDING)
           /\ schedule_stats' = [schedule_stats EXCEPT !.total_scheduled = @ + 1]
           /\ client' = IF s.raised THEN ClientIdle
                        ELSE [ClientIdle EXCEPT !.pc = "call", !.task = s.id]
    /\ UNCHANGED <<available_workers, memory_stats, agent_pool, tick, futures,
                   now, last_call, scheduler, pool_calls>>

\* execute_parallel_tasks, lines 683-685: one schedule_task of the list.
EptSchedule(data) ==
    /\ client.pc \in {"idle", "ept_schedule"}
    /\ Cardinality(DOMAIN tasks) < MaxTasks
    /\ LET s == schedule_task(tasks, task_queue, data, now)
       IN  /\ tasks' = s.tasks
           /\ task_queue' = s.queue
           /\ calls' = Extend(calls, s.id, NoCalls)
           /\ client' =
                IF s.raised THEN ClientIdle
                ELSE [ClientIdle EXCEPT
                        !.pc = "ept_schedule",
                        !.first = IF client.pc = "idle" THEN s.id
                                  ELSE client.first,
                        !.last = s.id]
           /\ task_status_stats' = Extend(task_status_stats, s.id, PENDING)
           /\ schedule_stats' = [schedule_stats EXCEPT !.total_scheduled = @ + 1]
    /\ UNCHANGED <<available_workers, memory_stats, agent_pool, tick, futures,
                   now, last_call, scheduler, pool_calls>>

\* execute_parallel_tasks: the list is scheduled, task_results and
\* completed_tasks are set up (lines 688-689), the while loop starts.
EptBeginLoop ==
    /\ client.pc = "ept_schedule"
    /\ client' = [client EXCEPT !.pc = "ept_loop", !.task = client.first,
                                !.completed_tasks = 0, !.task_results = <<>>]
    /\ UNCHANGED <<tasks, task_queue, available_workers, memory_stats,
                   agent_pool, tick, futures, calls, task_status_stats, now,
                   last_call,
                   schedule_stats, scheduler, pool_calls>>

\* execute_parallel_tasks, lines 693-740, for the task under the cursor.  A
\* task that is not PENDING is counted (line 726); after the last task of
\* the list the method returns when completed_tasks has reached the length
\* of the list, and goes through the list again otherwise.  A PENDING task
\* leads to execute_task (on itself, or on a dependency through
\* wait_for_dependencies) or to an exception that leaves the method:
\* AttributeError from are_dependencies_met, or TypeError from unpacking
\* the bool wait_for_dependencies returns.  No call comes back, so lines
\* 703-720, which add to task_results, are not reached.
EptVisit ==
    /\ client.pc = "ept_loop"
    /\ LET t == client.task
           met == are_dependencies_met(tasks, t)
           dep == wait_for_dependencies(tasks, t)
           total == client.last - client.first + 1
           counted == client.completed_tasks + 1
       IN  client' =
             IF tasks[t].status # PENDING
             THEN IF t # client.last
                  THEN [client EXCEPT !.task = t + 1,
                                      !.completed_tasks = counted]
                  ELSE IF counted >= total
                  THEN [ClientIdle EXCEPT !.returned =
                          << execute_parallel_tasks_return(
                               total, counted, client.task_results) >>]
                  ELSE [client EXCEPT !.task = client.first,
                                      !.completed_tasks = counted]
             ELSE IF met = "True" THEN [client EXCEPT !.pc = "call"]
             ELSE IF met = "False" /\ dep # 0
                  THEN [client EXCEPT !.pc = "call", !.task = dep]
             ELSE ClientIdle
    /\ UNCHANGED <<tasks, task_queue, available_workers, memory_stats,
                   agent_pool, tick, futures, calls, task_status_stats, now,
                   last_call,
                   schedule_stats, scheduler, pool_calls>>

\* execute_task in the caller's thread, lines 266-267.
ClientExecBegin ==
    /\ client.pc = "call"
    /\ tasks' = execute_task_begin(tasks, client.task)
    /\ calls' = Bump(calls, {client.task}, "executed")
    /\ client' = [client EXCEPT !.pc = "exec"]
    /\ UNCHANGED <<task_queue, available_workers, memory_stats, agent_pool,
                   tick, futures, task_status_stats, now, last_call,
                   schedule_stats, scheduler, pool_calls>>

\* execute_task in the caller's thread, line 268 to the end; the NameError
\* leaves execute_task and every caller above it.
ClientExecRaise ==
    /\ client.pc = "exec"
    /\ tasks' = execute_task_except(tasks, client.task, now)
    /\ calls' = Bump(calls, {client.task}, "finished")
    /\ client' = ClientIdle
    /\ UNCHANGED <<task_queue, available_workers, memory_stats, agent_pool,
                   tick, futures, task_status_stats, now, last_call,
                   schedule_stats, scheduler, pool_calls>>

(* --------------------------------------------------- the scheduler side *)

\* start_scheduler: nothing when the flag is set; otherwise the flag is set
\* and a new loop thread started.  The call is followed when no loop thread
\* of an earlier start is alive and no stop_scheduler call is under way.
StartScheduler ==
    /\ ~ scheduler.running
    /\ scheduler.thread # "alive"
    /\ scheduler.stop \in {"idle", "returned"}
    /\ scheduler' = [scheduler EXCEPT !.running = TRUE, !.thread = "alive",
                                      !.stop = "idle"]
    /\ UNCHANGED <<tasks, task_queue, available_workers, memory_stats,
                   agent_pool, tick, futures, client, calls, task_status_stats,
                   now, last_call, schedule_stats, pool_calls>>

\* `while self.scheduler_running` at the top of scheduler_loop (line 516),
\* read by the loop thread as it begins an iteration.
LoopRuns == scheduler.thread = "alive" /\ scheduler.running

\* process_ready_tasks up to the wait for the futures (lines 539-560).  An
\* exception of the queue loop goes to the except clause of scheduler_loop;
\* when no task is ready the method returns and the loop goes on to
\* cleanup_completed_tasks (line 528).  When the executor was shut down,
\* the first ready task is allocated (line 558) and submit raises
\* RuntimeError (line 559), which also goes to the except clause.
TickDispatch ==
    /\ LoopRuns
    /\ tick.pc = "idle"
    /\ task_queue # <<>>
    /\ LET d == Drain(tasks, task_queue, available_workers, memory_stats, <<>>)
           a == AllocateFrom(tasks, available_workers, d.ready, 1, <<>>)
           got == Queued(a.submitted)
           c == cleanup_completed_tasks(tasks, task_status_stats, now)
       IN  /\ task_queue' = d.queue
           /\ IF d.raised
              THEN UNCHANGED <<tasks, available_workers, tick, futures, calls,
                               task_status_stats>>
              ELSE IF d.ready = <<>>
              THEN /\ tasks' = c.tasks
                   /\ task_status_stats' = c.stats
                   /\ UNCHANGED <<available_workers, tick, futures, calls>>
              ELSE IF scheduler.executor # "open"
              THEN LET f == allocate_resources(tasks, available_workers, d.ready[1])
                   IN  /\ tasks' = f.tasks
                       /\ available_workers' = f.workers
                       /\ calls' = Bump(calls, {d.ready[1]}, "allocated")
                       /\ UNCHANGED <<tick, futures, task_status_stats>>
              ELSE /\ tasks' = a.tasks
                   /\ available_workers' = a.workers
                   /\ tick' = [pc |-> "wait", ready |-> d.ready,
                               submitted |-> a.submitted]
                   /\ futures' = [t \in got |-> "submitted"]
                   /\ calls' = Bump(Bump(calls, got, "allocated"),
                                    Queued(d.ready) \ got, "refused")
                   /\ UNCHANGED task_status_stats
    /\ UNCHANGED <<memory_stats, agent_pool, client, now, last_call,
                   schedule_stats, scheduler, pool_calls>>

\* The executor threads that are running a work item: an execute_task a
\* tick submitted, or an execute_task_in_thread.
BusyThreads ==
    Cardinality({ u \in DOMAIN futures : futures[u] = "started" })
    + Cardinality({ u \in DOMAIN pool_calls : pool_calls[u].nested = "running" })

\* execute_task on an executor thread, lines 266-267.  The executor was
\* built with max_workers threads, so no more than that many run at once.
WorkerBegin(t) ==
    /\ t \in DOMAIN futures
    /\ futures[t] = "submitted"
    /\ BusyThreads < MaxWorkers
    /\ tasks' = execute_task_begin(tasks, t)
    /\ calls' = Bump(calls, {t}, "executed")
    /\ futures' = [futures EXCEPT ![t] = "started"]
    /\ UNCHANGED <<task_queue, available_workers, memory_stats, agent_pool,
                   tick, client, task_status_stats, now, last_call,
                   schedule_stats, scheduler, pool_calls>>

\* An execute_task that stays on its executor thread and does not end.
WorkerRunsOn(t) ==
    /\ t \in DOMAIN futures
    /\ futures[t] = "started"
    /\ UNCHANGED vars

\* execute_task on an executor thread, line 268 to the end; the NameError is
\* kept in the future, whose result nobody reads.
WorkerRaise(t) ==
    /\ t \in DOMAIN futures
    /\ futures[t] = "started"
    /\ tasks' = execute_task_except(tasks, t, now)
    /\ calls' = Bump(calls, {t}, "finished")
    /\ futures' = [futures EXCEPT ![t] = "done"]
    /\ UNCHANGED <<task_queue, available_workers, memory_stats, agent_pool,
                   tick, client, task_status_stats, now, last_call,
                   schedule_stats, scheduler, pool_calls>>

\* process_ready_tasks from as_completed on (lines 562-583): the loop over
\* the finished futures finds no _task_id and does nothing, then every
\* ready task is released.  The method returns and scheduler_loop runs
\* cleanup_completed_tasks (line 528).
TickRelease ==
    /\ tick.pc = "wait"
    /\ \A t \in DOMAIN futures : futures[t] = "done"
    /\ LET r == ReleaseFrom(tasks, available_workers, tick.ready, 1)
           c == cleanup_completed_tasks(r.tasks, task_status_stats, now)
       IN  /\ tasks' = c.tasks
           /\ task_status_stats' = c.stats
           /\ available_workers' = r.workers
    /\ calls' = Bump(calls, Queued(tick.ready), "released")
    /\ tick' = TickIdle
    /\ futures' = NoFutures
    /\ UNCHANGED <<task_queue, memory_stats, agent_pool, client, now, last_call,
                   schedule_stats, scheduler, pool_calls>>

\* One iteration of scheduler_loop with an empty queue: process_ready_tasks
\* finds nothing (line 542), cleanup_completed_tasks runs.
TickEmpty ==
    /\ LoopRuns
    /\ tick.pc = "idle"
    /\ task_queue = <<>>
    /\ LET c == cleanup_completed_tasks(tasks, task_status_stats, now)
       IN  /\ tasks' = c.tasks
           /\ task_status_stats' = c.stats
    /\ UNCHANGED <<task_queue, available_workers, memory_stats, agent_pool,
                   tick, futures, client, calls, now, last_call,
                   schedule_stats, scheduler, pool_calls>>

\* scheduler_loop ends: the flag is read False at line 516.
LoopExit ==
    /\ scheduler.thread = "alive"
    /\ ~ scheduler.running
    /\ tick.pc = "idle"
    /\ scheduler' = [scheduler EXCEPT !.thread = "ended"]
    /\ UNCHANGED <<tasks, task_queue, available_workers, memory_stats,
                   agent_pool, tick, futures, client, calls, task_status_stats,
                   now, last_call, schedule_stats, pool_calls>>

(* ------------------------------------------------------- stop_scheduler *)

\* stop_scheduler, lines 206-207: the flag is cleared; a scheduler that was
\* started has a thread object to join.
StopScheduler ==
    /\ scheduler.stop \in {"idle", "returned"}
    /\ scheduler' = [scheduler EXCEPT
                        !.running = FALSE,
                        !.stop = IF scheduler.thread = "none" THEN "shutdown"
                                 ELSE "join"]
    /\ UNCHANGED <<tasks, task_queue, available_workers, memory_stats,
                   agent_pool, tick, futures, client, calls, task_status_stats,
                   now, last_call, schedule_stats, pool_calls>>

\* join(timeout=5) returns (line 208): the loop thread has ended, or five
\* seconds have passed with the thread still in its iteration.
StopJoin ==
    /\ scheduler.stop = "join"
    /\ scheduler' = [scheduler EXCEPT !.stop = "shutdown"]
    /\ UNCHANGED <<tasks, task_queue, available_workers, memory_stats,
                   agent_pool, tick, futures, client, calls, task_status_stats,
                   now, last_call, schedule_stats, pool_calls>>

\* executor.shutdown(wait=True) is called (line 211): from here on submit
\* raises RuntimeError, and the call waits for the work submitted so far.
ExecutorShutdown ==
    /\ scheduler.stop = "shutdown"
    /\ scheduler' = [scheduler EXCEPT
                        !.stop = "drain",
                        !.executor = IF @ = "open" THEN "closing" ELSE @]
    /\ UNCHANGED <<tasks, task_queue, available_workers, memory_stats,
                   agent_pool, tick, futures, client, calls, task_status_stats,
                   now, last_call, schedule_stats, pool_calls>>

\* What shutdown(wait=True) waits for: every submitted execute_task has run
\* to its end.
executor_drained(fs) == \A t \in DOMAIN fs : fs[t] = "done"

\* executor.shutdown returns and with it stop_scheduler (lines 211-212).
StopReturns ==
    /\ scheduler.stop = "drain"
    /\ executor_drained(futures)
    /\ \A t \in DOMAIN pool_calls : pool_calls[t].nested \notin {"queued", "running"}
    /\ scheduler' = [scheduler EXCEPT !.stop = "returned", !.executor = "shutdown"]
    /\ UNCHANGED <<tasks, task_queue, available_workers, memory_stats,
                   agent_pool, tick, futures, client, calls, task_status_stats,
                   now, last_call, schedule_stats, pool_calls>>

Next ==
    \/ StartScheduler
    \/ \E data \in TaskData : ScheduleTask(data)
    \/ \E data \in TaskData : ExecuteParallelTask(data)
    \/ \E data \in TaskData : EptSchedule(data)
    \/ EptBeginLoop
    \/ EptVisit
    \/ ClientExecBegin
    \/ ClientExecRaise
    \/ TickDispatch
    \/ \E t \in DOMAIN futures : WorkerBegin(t)
    \/ \E t \in DOMAIN futures : WorkerRaise(t)
    \/ TickRelease
    \/ TickEmpty

Spec == Init /\ [][Next]_vars

(* A second specification, for the order in which a tick takes entries    *)
(* from a longer queue: a caller that only submits dependency-free tasks  *)
(* of the default size, and the scheduler loop.                           *)

\* Number of schedule_task calls QueueSpec follows.
MaxQueueTasks == 7

QueueData ==
    { [task_type |-> "unknown", priority |-> p, dependencies |-> <<>>,
       memory_mb |-> default_memory_mb] : p \in {1, 3, 5} }

ScheduleQueued(data) == Schedule(data, MaxQueueTasks)

QueueNext ==
    \/ StartScheduler
    \/ \E data \in QueueData : ScheduleQueued(data)
    \/ TickDispatch
    \/ \E t \in DOMAIN futures : WorkerBegin(t)
    \/ \E t \in DOMAIN futures : WorkerRaise(t)
    \/ TickRelease
    \/ TickEmpty

QueueSpec == Init /\ [][QueueNext]_vars

(* The scheduler loop alone, with a caller that only submits tasks.       *)

TickNext ==
    \/ StartScheduler
    \/ \E data \in TaskData : ScheduleTask(data)
    \/ TickDispatch
    \/ \E t \in DOMAIN futures : WorkerBegin(t)
    \/ \E t \in DOMAIN futures : WorkerRaise(t)
    \/ TickRelease
    \/ TickEmpty

TickSpec == Init /\ [][TickNext]_vars

\* TickSpec with the threads kept running: an executor thread that can take
\* or end a submitted execute_task does so, and the scheduler thread, once
\* as_completed has handed it every future of the batch, goes on to the
\* release loop.
TickFairSpec ==
    /\ TickSpec
    /\ WF_vars(\E t \in DOMAIN futures : WorkerBegin(t))
    /\ WF_vars(\E t \in DOMAIN futures : WorkerRaise(t))
    /\ WF_vars(TickRelease)

(* A specification for retention: hours pass between the calls.    *)
(* A task id carries the second of its submission and len(self.tasks); as *)
(* long as nothing was deleted the length alone tells ids apart, so this  *)
(* specification follows submissions up to the first deletion.  The clock *)
(* moves while the caller is between calls and the queue is empty (the    *)
(* submissions are dependency-free and of the default size, which the     *)
(* pool admits).                                                          *)

\* Hours by which the clock moves in one step, and the last hour followed.
ClockStep == 12
MaxClock == 36

RetentionData ==
    { d \in TaskData : d.memory_mb = default_memory_mb /\ d.dependencies = <<>>
                         /\ d.task_type = "unknown" }

\* No id was deleted from self.tasks so far.
Unpruned == DOMAIN calls = DOMAIN tasks

RetainedSchedule(data) == Unpruned /\ ScheduleTask(data)

RetainedExecute(data) == Unpruned /\ ExecuteParallelTask(data)

ClockAdvance ==
    /\ now + ClockStep <= MaxClock
    /\ client.pc = "idle"
    /\ task_queue = <<>>
    /\ now' = now + ClockStep
    /\ UNCHANGED <<tasks, task_queue, available_workers, memory_stats,
                   agent_pool, tick, futures, client, calls,
                   task_status_stats, last_call,
                   schedule_stats, scheduler, pool_calls>>

RetentionNext ==
    \/ StartScheduler
    \/ \E data \in RetentionData : RetainedSchedule(data)
    \/ \E data \in RetentionData : RetainedExecute(data)
    \/ ClientExecBegin
    \/ ClientExecRaise
    \/ TickDispatch
    \/ \E t \in DOMAIN futures : WorkerBegin(t)
    \/ \E t \in DOMAIN futures : WorkerRaise(t)
    \/ TickRelease
    \/ TickEmpty
    \/ ClockAdvance

RetentionSpec == Init /\ [][RetentionNext]_vars

(* A specification for the agent registry: a caller that submits  *)
(* tasks and calls register_agent, update_agent_metrics,                  *)
(* find_suitable_agent and execute_with_agent itself.                     *)

\* Number of schedule_task calls AgentSpec follows.
MaxAgentTasks == 1

\* update_agent_metrics is followed while the denominators of the metrics
\* are below this scale (a call multiplies them by up to ten), on the agents
\* of UpdatedAgents.
MetricScale == 1000

UpdatedAgents == {"custom", "file_operations"}

\* execution_time, in whole seconds.
ExecutionTimes == {2}

AgentData == { d \in RetentionData : d.priority = 1 } \cup
             { d \in TaskData : d.task_type = "file_operations" /\ d.dependencies = <<>> }

ScheduleForAgents(data) == Schedule(data, MaxAgentTasks)

RegisterAgent(config) ==
    /\ client.pc = "idle"
    /\ agent_pool' = register_agent(agent_pool, config)
    /\ last_call' = Called("register_agent", config.agent_id, config.agent_id,
                           IF config.performance_metrics = <<>>
                           THEN "no metrics" ELSE "metrics")
    /\ UNCHANGED <<tasks, task_queue, available_workers, memory_stats, tick,
                   futures, client, calls, task_status_stats, now,
                   schedule_stats, scheduler, pool_calls>>

UpdateAgentMetrics(a, execution_time, success) ==
    /\ client.pc = "idle"
    /\ a \in DOMAIN agent_pool \cap UpdatedAgents
    /\ LET pm == agent_pool[a].performance_metrics
       IN  \A k \in DOMAIN pm : pm[k].d < MetricScale
    /\ LET u == update_agent_metrics(agent_pool[a], execution_time, success)
       IN  /\ agent_pool' = [agent_pool EXCEPT ![a] = u.agent]
           /\ last_call' = Called("update_agent_metrics", a,
                                  IF u.raised THEN "NameError" ELSE "None",
                                  IF ~ u.raised /\ Len(agent_pool[a].task_history)
                                                     >= history_limit
                                  THEN "trimmed" ELSE "none")
    /\ UNCHANGED <<tasks, task_queue, available_workers, memory_stats, tick,
                   futures, client, calls, task_status_stats, now,
                   schedule_stats, scheduler, pool_calls>>

FindSuitableAgent(t) ==
    /\ client.pc = "idle"
    /\ t \in DOMAIN tasks
    /\ last_call' = Called("find_suitable_agent", tasks[t].task_type,
                           find_suitable_agent(agent_pool, tasks[t].task_type),
                           "none")
    /\ UNCHANGED <<tasks, task_queue, available_workers, memory_stats,
                   agent_pool, tick, futures, client, calls,
                   task_status_stats, now,
                   schedule_stats, scheduler, pool_calls>>

ExecuteWithAgent(t) ==
    /\ client.pc = "idle"
    /\ t \in DOMAIN tasks
    /\ LET e == execute_with_agent(agent_pool, t, tasks[t].task_type)
       IN  /\ agent_pool' = e.pool
           /\ last_call' = Called("execute_with_agent", tasks[t].task_type,
                                  e.result, "none")
    /\ UNCHANGED <<tasks, task_queue, available_workers, memory_stats, tick,
                   futures, client, calls, task_status_stats, now,
                   schedule_stats, scheduler, pool_calls>>

AgentNext ==
    \/ \E data \in AgentData : ScheduleForAgents(data)
    \/ \E config \in AgentConfigs : RegisterAgent(config)
    \/ \E a \in DOMAIN agent_pool, e \in ExecutionTimes, success \in BOOLEAN :
          UpdateAgentMetrics(a, e, success)
    \/ \E t \in DOMAIN tasks : FindSuitableAgent(t)
    \/ \E t \in DOMAIN tasks : ExecuteWithAgent(t)

AgentSpec == Init /\ [][AgentNext]_vars

(* A specification for the task history: a caller that registers an      *)
(* agent whose metrics update_agent_metrics leaves as they are, and that  *)
(* reports executions of it.                                              *)

\* Response time and success rate 0 are not averaged (lines 472 and 479),
\* and efficiency 1.0 averaged with 1.0 stays 1.0.
HistoryConfigs ==
    { [agent_id |-> "custom", supported_tasks |-> {"unknown"},
       max_concurrent |-> 1,
       performance_metrics |-> <<Metrics(Frac(0, 1), Frac(0, 1), Frac(1, 1))>>] }

\* Number of failed executions among the entries of a history that
\* HistorySpec follows.
MaxHistoryFailures == 1

FewFailures(a, success) ==
    \/ success
    \/ /\ a \in DOMAIN agent_pool
       /\ Len(agent_pool[a].task_history)
             - Successes(agent_pool[a].task_history) < MaxHistoryFailures

HistoryNext ==
    \/ \E config \in HistoryConfigs : RegisterAgent(config)
    \/ \E a \in { c.agent_id : c \in HistoryConfigs }, e \in ExecutionTimes,
          success \in BOOLEAN :
          FewFailures(a, success) /\ UpdateAgentMetrics(a, e, success)

HistorySpec == Init /\ [][HistoryNext]_vars

(* A specification for the average execution time: the statements with    *)
(* which execute_task counts a success (lines 281-284), and callers of    *)
(* update_average_execution_time itself.                                  *)

\* Number of successes AverageSpec counts.
MaxCompleted == 5

\* AverageSpec makes no direct call once the average's denominator, in
\* lowest terms, has reached this.
AverageScale == 30

\* (completed_at - started_at).total_seconds(), in whole seconds.
CompletionTimes == {2, 3, 5}

\* update_average_execution_time: nothing while total_completed is 0;
\* otherwise the old average is weighted with total_completed, which its
\* caller has raised already, and the sum divided by total_completed + 1.
update_average_execution_time(stats, execution_time) ==
    LET current_avg == stats.average_execution_time
        completed_count == stats.total_completed
    IN  IF completed_count > 0
        THEN [stats EXCEPT !.average_execution_time =
                Lowest(Frac(current_avg.n * completed_count
                              + execution_time * current_avg.d,
                            current_avg.d * (completed_count + 1)))]
        ELSE stats

\* execute_task, lines 280-284, for a task that succeeded and has both
\* times: the success is counted, then its execution time is averaged in.
CountCompleted(execution_time) ==
    /\ schedule_stats.total_completed < MaxCompleted
    /\ schedule_stats' = update_average_execution_time(
                            [schedule_stats EXCEPT !.total_completed = @ + 1],
                            execution_time)
    /\ last_call' = Called("execute_task", execution_time, "True", "none")
    /\ UNCHANGED <<tasks, task_queue, available_workers, memory_stats,
                   agent_pool, tick, futures, client, calls, task_status_stats,
                   now, scheduler, pool_calls>>

\* update_average_execution_time called on the scheduler as it is.
UpdateAverageExecutionTime(execution_time) ==
    /\ schedule_stats.average_execution_time.d < AverageScale
    /\ schedule_stats' = update_average_execution_time(schedule_stats,
                                                       execution_time)
    /\ last_call' = Called("update_average_execution_time", execution_time,
                           "None", "none")
    /\ UNCHANGED <<tasks, task_queue, available_workers, memory_stats,
                   agent_pool, tick, futures, client, calls, task_status_stats,
                   now, scheduler, pool_calls>>

AverageNext ==
    \/ \E x \in CompletionTimes : CountCompleted(x)
    \/ \E x \in CompletionTimes : UpdateAverageExecutionTime(x)

AverageSpec == Init /\ [][AverageNext]_vars

(* A specification for dependency resolution: a caller of                 *)
(* execute_parallel_task and execute_parallel_tasks, with the scheduler   *)
(* loop not started.  The priorities differ so that the queue accepts the *)
(* submissions.                                                           *)

DependencyData ==
    { [task_type |-> "unknown", priority |-> 5, dependencies |-> <<>>,
       memory_mb |-> default_memory_mb],
      [task_type |-> "unknown", priority |-> 3, dependencies |-> <<3>>,
       memory_mb |-> default_memory_mb],
      [task_type |-> "unknown", priority |-> 2, dependencies |-> <<1>>,
       memory_mb |-> default_memory_mb],
      [task_type |-> "unknown", priority |-> 1, dependencies |-> <<3, 1>>,
       memory_mb |-> default_memory_mb] }

DependencyNext ==
    \/ \E data \in DependencyData : ExecuteParallelTask(data)
    \/ \E data \in DependencyData : EptSchedule(data)
    \/ EptBeginLoop
    \/ EptVisit
    \/ ClientExecBegin
    \/ ClientExecRaise

DependencySpec == Init /\ [][DependencyNext]_vars

(* A specification for stop_scheduler: a caller that submits tasks, starts *)
(* the scheduler, stops it, and may start it again.                       *)

StopNext ==
    \/ StartScheduler
    \/ \E data \in TaskData : ScheduleTask(data)
    \/ TickDispatch
    \/ \E t \in DOMAIN futures : WorkerBegin(t)
    \/ \E t \in DOMAIN futures : WorkerRaise(t)
    \/ TickRelease
    \/ TickEmpty
    \/ LoopExit
    \/ StopScheduler
    \/ StopJoin
    \/ ExecutorShutdown
    \/ StopReturns

StopSpec == Init /\ [][StopNext]_vars

(* A specification for task ids: submissions go on after                  *)
(* cleanup_completed_tasks has deleted records, with several calls at one *)
(* reading of the clock.  Once an id was issued twice the queue holds two *)
(* task objects of one id, which the heap of ids does not describe, so    *)
(* the specification follows the scheduler up to that call.               *)

\* Number of schedule_task calls IdentitySpec follows.
MaxIdentityTasks == 3

\* Every schedule_task call so far issued an id of its own.
Distinct == Cardinality(DOMAIN calls) = schedule_stats.total_scheduled

ScheduleAgain(data) ==
    /\ schedule_stats.total_scheduled < MaxIdentityTasks
    /\ ScheduleTask(data)

IdentityNext ==
    \/ Distinct /\ StartScheduler
    \/ Distinct /\ \E data \in RetentionData : ScheduleAgain(data)
    \/ Distinct /\ TickDispatch
    \/ Distinct /\ \E t \in DOMAIN futures : WorkerBegin(t)
    \/ Distinct /\ \E t \in DOMAIN futures : WorkerRaise(t)
    \/ Distinct /\ TickRelease
    \/ Distinct /\ TickEmpty
    \/ Distinct /\ ClockAdvance

IdentitySpec == Init /\ [][IdentityNext]_vars

(* --------------------------------------------------------------- claims *)

(* A specification for the thread-pool path: a caller that submits tasks  *)
(* with a command and calls execute_with_threadpool on them itself, from  *)
(* as many threads as there are tasks.                                    *)

\* Number of schedule_task calls PoolSpec follows.
MaxPoolTasks == 3

\* The commands of the model: none, one that exits with code 0, one that
\* exits with code 1, and one that runs until it is killed.
PoolData ==
    { [task_type |-> "unknown", priority |-> 1, dependencies |-> <<>>,
       memory_mb |-> default_memory_mb, command |-> ""],
      [task_type |-> "unknown", priority |-> 2, dependencies |-> <<>>,
       memory_mb |-> default_memory_mb, command |-> "true", max_wait_time |-> 1],
      [task_type |-> "unknown", priority |-> 3, dependencies |-> <<>>,
       memory_mb |-> default_memory_mb, command |-> "false"],
      [task_type |-> "unknown", priority |-> 4, dependencies |-> <<>>,
       memory_mb |-> default_memory_mb, command |-> "yes", max_wait_time |-> 1],
      [task_type |-> "unknown", priority |-> 5, dependencies |-> <<>>,
       memory_mb |-> default_memory_mb, command |-> "yes"] }

\* str(e) of the exceptions of the thread-pool path.  future.result raises
\* TimeoutError without arguments, whose string is empty.
CalledProcessErrorText == "Command returned non-zero exit status 1."
TimeoutExpiredText == "Command timed out after max_wait_time seconds"
FutureTimeoutText == ""

\* execute_task_in_thread(task): without a command the success dict is
\* returned; subprocess.run(check=True) returns for exit code 0, raises
\* CalledProcessError for another code and TimeoutExpired when the process
\* is still running after max_wait_time.  Both except clauses record the
\* failure on the task and raise again.
execute_task_in_thread(task) ==
    IF task.command \in {"", "true"}
    THEN [task |-> task, outcome |-> "result"]
    ELSE IF task.command = "false"
    THEN [task |-> [task EXCEPT !.status = FAILED,
                                !.error = CalledProcessErrorText],
          outcome |-> "CalledProcessError"]
    ELSE [task |-> [task EXCEPT !.status = FAILED, !.error = "Task timed out"],
          outcome |-> "TimeoutExpired"]

\* execute_with_threadpool, lines 365-371: what future.result hands to the
\* caller.  A result is returned with True and the task is not written; an
\* exception (of the submitted call, or the TimeoutError of the wait) is
\* recorded on the task and gives (False, str(e)).
execute_with_threadpool_result(task, outcome) ==
    IF outcome = "result" THEN [task |-> task, success |-> "True"]
    ELSE [task |-> [task EXCEPT
                      !.status = FAILED,
                      !.error = CASE outcome = "CalledProcessError" -> CalledProcessErrorText
                                  [] outcome = "TimeoutExpired" -> TimeoutExpiredText
                                  [] OTHER -> FutureTimeoutText],
          success |-> "False"]

SchedulePooled(data) == Schedule(data, MaxPoolTasks)

\* execute_with_threadpool up to future.result (lines 355-366).  submit on
\* an executor that was shut down raises RuntimeError; the outer except
\* clause then reads task.id, which ParallelTask does not have, and the
\* AttributeError leaves the method before line 375.
ExecuteWithThreadpool(t) ==
    /\ t \in DOMAIN tasks
    /\ t \notin DOMAIN pool_calls
    /\ pool_calls' = Extend(pool_calls, t,
                         IF scheduler.executor = "open"
                         THEN [caller |-> "waiting", nested |-> "queued"]
                         ELSE [caller |-> "AttributeError", nested |-> "none"])
    /\ UNCHANGED <<tasks, task_queue, available_workers, memory_stats,
                   agent_pool, tick, futures, client, calls, task_status_stats,
                   now, last_call, schedule_stats, scheduler>>

\* An executor thread takes the submitted execute_task_in_thread.
NestedBegin(t) ==
    /\ t \in DOMAIN pool_calls
    /\ pool_calls[t].nested = "queued"
    /\ BusyThreads < MaxWorkers
    /\ pool_calls' = [pool_calls EXCEPT ![t].nested = "running"]
    /\ UNCHANGED <<tasks, task_queue, available_workers, memory_stats,
                   agent_pool, tick, futures, client, calls, task_status_stats,
                   now, last_call, schedule_stats, scheduler>>

\* execute_task_in_thread ends on its executor thread, whether or not its
\* caller is still waiting for it.
NestedEnd(t) ==
    /\ t \in DOMAIN pool_calls
    /\ pool_calls[t].nested = "running"
    /\ LET e == execute_task_in_thread(tasks[t])
       IN  /\ tasks' = [tasks EXCEPT ![t] = e.task]
           /\ pool_calls' = [pool_calls EXCEPT ![t].nested = e.outcome]
    /\ UNCHANGED <<task_queue, available_workers, memory_stats,
                   agent_pool, tick, futures, client, calls, task_status_stats,
                   now, last_call, schedule_stats, scheduler>>

\* future.result returns or raises what the submitted call ended with.
CallerReturn(t) ==
    /\ t \in DOMAIN pool_calls
    /\ pool_calls[t].caller = "waiting"
    /\ pool_calls[t].nested \notin {"queued", "running"}
    /\ LET r == execute_with_threadpool_result(tasks[t], pool_calls[t].nested)
       IN  /\ tasks' = [tasks EXCEPT ![t] = r.task]
           /\ pool_calls' = [pool_calls EXCEPT ![t].caller = r.success]
    /\ UNCHANGED <<task_queue, available_workers, memory_stats,
                   agent_pool, tick, futures, client, calls, task_status_stats,
                   now, last_call, schedule_stats, scheduler>>

\* The executor threads that stay busy for at least `seconds`: each runs a
\* process that does not end by itself, under a max_wait_time of that length.
HeldThreads(seconds) ==
    { u \in DOMAIN pool_calls :
        /\ pool_calls[u].nested = "running"
        /\ tasks[u].command = "yes"
        /\ tasks[u].max_wait_time >= seconds }

\* future.result(timeout=task.max_wait_time) raises TimeoutError: the
\* submitted call has not ended after max_wait_time, because its process is
\* still running (the timer of subprocess.run and the caller's run out
\* together, and either can be first) or because every executor thread has
\* been held that long and the call has not begun.  The submitted call is
\* not cancelled.
CallerTimeout(t) ==
    /\ t \in DOMAIN pool_calls
    /\ pool_calls[t].caller = "waiting"
    /\ \/ pool_calls[t].nested = "running" /\ tasks[t].command = "yes"
       \/ /\ pool_calls[t].nested = "queued"
          /\ Cardinality(HeldThreads(tasks[t].max_wait_time)) = MaxWorkers
    /\ LET r == execute_with_threadpool_result(tasks[t], "TimeoutError")
       IN  /\ tasks' = [tasks EXCEPT ![t] = r.task]
           /\ pool_calls' = [pool_calls EXCEPT ![t].caller = r.success]
    /\ UNCHANGED <<task_queue, available_workers, memory_stats,
                   agent_pool, tick, futures, client, calls, task_status_stats,
                   now, last_call, schedule_stats, scheduler>>

PoolNext ==
    \/ \E data \in PoolData : SchedulePooled(data)
    \/ \E t \in DOMAIN tasks : ExecuteWithThreadpool(t)
    \/ \E t \in DOMAIN pool_calls : NestedBegin(t)
    \/ \E t \in DOMAIN pool_calls : NestedEnd(t)
    \/ \E t \in DOMAIN pool_calls : CallerReturn(t)
    \/ \E t \in DOMAIN pool_calls : CallerTimeout(t)

PoolSpec == Init /\ [][PoolNext]_vars

Running(ts) == { t \in DOMAIN ts : ts[t].status = RUNNING }

\* C1 (monotonic terminality): once a task's status is Completed, Failed or
\* Cancelled, no step changes that status.
C1_MonotonicTerminality ==
    [][\A t \in DOMAIN tasks :
          tasks[t].status \in Terminal => tasks'[t].status = tasks[t].status]_vars

\* C2 (resource conservation): in every state the free workers plus the
\* tasks whose status is Running make up max_workers.
C2_ResourceConservation ==
    available_workers + Cardinality(Running(tasks)) = MaxWorkers

\* C3: in every state 0 <= available_workers <= max_workers.
C3_WorkersInRange ==
    available_workers >= 0 /\ available_workers <= MaxWorkers

\* C4 (allocate/release pairing): a task is never released more often than
\* allocate_resources returned true for it, and once the tick that allocated
\* it is over it has been released exactly as often.
C4_AllocateReleasePairing ==
    \A t \in DOMAIN calls :
        /\ calls[t].released <= calls[t].allocated
        /\ tick.pc = "idle" => calls[t].released = calls[t].allocated

\* C5 (dependency gating): no step takes a task to Running while one of its
\* dependencies (another task with a record) is not Completed.
C5_DependencyGating ==
    [][\A t \in DOMAIN tasks :
          (tasks[t].status # RUNNING /\ tasks'[t].status = RUNNING)
          => \A i \in 1..Len(tasks[t].dependencies) :
                LET d == tasks[t].dependencies[i]
                IN  (d \in DOMAIN tasks /\ d # t) => tasks[d].status = COMPLETED]_vars

\* C6 (no duplicate execution): execute_task is started at most once for
\* every task.
C6_ExecutedAtMostOnce ==
    \A t \in DOMAIN calls : calls[t].executed <= 1

Position(seq, t) == CHOOSE i \in 1..Len(seq) : seq[i] = t

Admissible(t) ==
    can_allocate_task(available_workers, memory_stats, tasks[t].memory_mb) = "True"

\* C7 (priority within a tick): when a tick submits a task B, every
\* admissible dependency-free task A that was queued with B at the start of
\* the tick and has a higher priority was submitted by that tick before B.
C7_PriorityWithinTick ==
    [][(tick.pc = "idle" /\ tick'.pc = "wait")
       => \A A \in Queued(task_queue), B \in Queued(task_queue) :
             ( /\ tasks[A].dependencies = <<>> /\ tasks[B].dependencies = <<>>
               /\ Admissible(A) /\ Admissible(B)
               /\ tasks[A].priority > tasks[B].priority
               /\ B \in Queued(tick'.submitted) )
             => ( /\ A \in Queued(tick'.submitted)
                  /\ Position(tick'.submitted, A) < Position(tick'.submitted, B) )]_vars

\* A step of the scheduler thread that begins a tick: the tick is not
\* waiting for futures and the caller's thread does not move.
TickStep ==
    /\ tick.pc = "idle"
    /\ task_queue # <<>>
    /\ DOMAIN tasks' = DOMAIN tasks
    /\ client' = client

\* C8 (admission denial under memory pressure): when the head of the queue
\* is Pending and its memory requirement exceeds the ceiling, a tick
\* dispatches nothing and leaves the task Pending and in the queue.
C8_MemoryDenial ==
    [][( /\ TickStep
         /\ memory_stats.total > 0
         /\ available_workers > 0
         /\ tasks[task_queue[1]].status = PENDING
         /\ ~ Admissible(task_queue[1]) )
       => ( /\ task_queue[1] \in Queued(task_queue')
            /\ tasks'[task_queue[1]].status = PENDING
            /\ tick'.pc = "idle" )]_vars

\* An agent that is Idle, supports the type and is below its concurrency
\* limit (it holds no task).
EligibleAgent(ap, task_type) ==
    \E a \in DOMAIN ap :
        /\ ap[a].status = "idle"
        /\ task_type \in ap[a].supported_task_types
        /\ ap[a].current_task = NoTask
        /\ ap[a].max_concurrent_tasks > 0

\* C9 (agent over pool): a task for which execute_task has run to its end
\* while such an agent existed went through execute_with_agent and not
\* through execute_with_threadpool.
C9_AgentOverPool ==
    \A t \in DOMAIN tasks :
        ( /\ calls[t].executed > 0
          /\ tasks[t].completed_at # NoTime
          /\ EligibleAgent(agent_pool, tasks[t].task_type) )
        => (calls[t].agent_path > 0 /\ calls[t].pool_path = 0)

\* C10 (dependency failure propagation): a Pending task that was never
\* started and has a Failed dependency is not started by any step: it stays
\* Pending or becomes Failed, and its started_at stays unset.
C10_DependencyFailurePropagation ==
    [][\A c \in DOMAIN tasks, d \in DOMAIN tasks :
          ( /\ d # c
            /\ \E i \in 1..Len(tasks[c].dependencies) : tasks[c].dependencies[i] = d
            /\ tasks[d].status = FAILED
            /\ tasks[c].status = PENDING
            /\ tasks[c].started_at = "None" )
          => ( /\ tasks'[c].status \in {PENDING, FAILED}
               /\ tasks'[c].started_at = "None" )]_vars

\* A step that is one call of cleanup_completed_tasks and nothing else: the
\* scheduler loop passes with an empty queue.
CleanupStep ==
    /\ tick.pc = "idle"
    /\ task_queue = <<>>
    /\ UNCHANGED <<task_queue, tick, client, now>>

\* C11 (retention pruning): cleanup_completed_tasks deletes from tasks and
\* from task_status_stats every task that is terminal with completed_at more
\* than 24 hours back, and leaves every other task present and unchanged.
C11_RetentionPruning ==
    [][CleanupStep =>
        \A t \in DOMAIN tasks :
            IF /\ tasks[t].status \in Terminal
               /\ tasks[t].completed_at # NoTime
               /\ now - tasks[t].completed_at[1] > 24
            THEN t \notin DOMAIN tasks' /\ t \notin DOMAIN task_status_stats'
            ELSE /\ t \in DOMAIN tasks' /\ tasks'[t] = tasks[t]
                 /\ t \in DOMAIN task_status_stats =>
                        /\ t \in DOMAIN task_status_stats'
                        /\ task_status_stats'[t] = task_status_stats[t]]_vars

\* One task was deleted from both tables while a younger terminal task and
\* a task of exactly 24 hours stayed.
C11_Witness ==
    /\ \E t \in DOMAIN calls : t \notin DOMAIN tasks /\ t \notin DOMAIN task_status_stats
    /\ \E u \in DOMAIN tasks :
          /\ tasks[u].status \in Terminal
          /\ tasks[u].completed_at # NoTime
          /\ now - tasks[u].completed_at[1] = 24

\* C12 (EMA bounds): after update_agent_metrics was called on an agent, the
\* agent's success_rate lies in [0, 1].
C12_SuccessRateInRange ==
    last_call.op = "update_agent_metrics" =>
        LET rate == agent_pool[last_call.arg].performance_metrics.success_rate
        IN  rate.n >= 0 /\ rate.n <= rate.d

AllowedChanges ==
    { <<PENDING, RUNNING>>, <<RUNNING, COMPLETED>>, <<RUNNING, FAILED>>,
      <<PENDING, CANCELLED>>, <<RUNNING, CANCELLED>>, <<PENDING, FAILED>> }

\* C14 (task state machine): every change of a task's status is one of
\* Pending->Running, Running->Completed, Running->Failed,
\* Pending->Cancelled, Running->Cancelled, Pending->Failed.
C14_TaskStateMachine ==
    [][\A t \in DOMAIN tasks \cap DOMAIN tasks' :
          tasks'[t].status # tasks[t].status
          => <<tasks[t].status, tasks'[t].status>> \in AllowedChanges]_vars

\* C15: for the requirement of every queued task, can_allocate_task answers
\* with a boolean, and answers true exactly when a worker is free and used
\* memory plus the requirement, as a share of total memory, is at most
\* max_memory_percent.
C15_CanAllocateTask ==
    \A t \in Queued(task_queue) :
        LET answer == can_allocate_task(available_workers, memory_stats,
                                        tasks[t].memory_mb)
        IN  /\ answer \in {"True", "False"}
            /\ answer = "True" <=>
                  /\ available_workers > 0
                  /\ (memory_stats.used + tasks[t].memory_mb) * 100
                        <= 80 * memory_stats.total

\* C16 (allocate_resources): when a tick allocates its ready tasks in turn,
\* each call made with a free worker takes exactly one worker and sets the
\* task Running, and each call made with none is refused and leaves the
\* worker count and the task's status alone: the submitted tasks are the
\* first min(available_workers, number ready) ready tasks.
C16_AllocateResources ==
    [][(tick.pc = "idle" /\ tick'.pc = "wait") =>
        LET ready == tick'.ready
            free == available_workers
            taken == IF Len(ready) < free THEN Len(ready) ELSE free
        IN  /\ tick'.submitted = SubSeq(ready, 1, taken)
            /\ available_workers' = free - taken
            /\ \A i \in 1..Len(ready) :
                  IF i <= taken THEN tasks'[ready[i]].status = RUNNING
                  ELSE tasks'[ready[i]].status = tasks[ready[i]].status]_vars

\* A tick has allocated two ready tasks and was refused for a third.
C16_Witness ==
    /\ tick.pc = "wait"
    /\ Len(tick.submitted) = MaxWorkers
    /\ Len(tick.ready) > Len(tick.submitted)
    /\ available_workers = 0

\* Every dependency of the task is Completed or has no record.
DependenciesSatisfied(ts, t) ==
    \A i \in 1..Len(ts[t].dependencies) :
        LET d == ts[t].dependencies[i]
        IN  d \notin DOMAIN ts \/ ts[d].status = COMPLETED

\* execute_parallel_tasks is at line 695 with a PENDING task under the
\* cursor: are_dependencies_met is about to be called on it.
AtDependencyCheck ==
    client.pc = "ept_loop" /\ tasks[client.task].status = PENDING

\* C17: are_dependencies_met(task) answers with a boolean, and answers true
\* exactly when every dependency is Completed or has no record.
C17_AreDependenciesMet ==
    AtDependencyCheck =>
        LET answer == are_dependencies_met(tasks, client.task)
        IN  /\ answer \in {"True", "False"}
            /\ answer = "True" <=> DependenciesSatisfied(tasks, client.task)

\* C18: wait_for_dependencies(task), called by execute_parallel_tasks,
\* returns true when every existing dependency is Completed and false
\* otherwise (a Failed, Running or still Pending dependency).
C18_WaitForDependencies ==
    ( /\ AtDependencyCheck
      /\ are_dependencies_met(tasks, client.task) = "False" )
    => wait_for_dependencies_result(tasks, client.task) =
          IF DependenciesSatisfied(tasks, client.task) THEN "True" ELSE "False"

\* The agents find_suitable_agent may return: Idle, of the type, and bound
\* to fewer tasks than max_concurrent_tasks.
EligibleAgents(ap, task_type) ==
    { a \in DOMAIN ap :
        /\ ap[a].status = "idle"
        /\ task_type \in ap[a].supported_task_types
        /\ Len(ap[a].current_task) < ap[a].max_concurrent_tasks }

Rank(ap, a) == CHOOSE i \in 1..Len(PoolOrder(ap)) : PoolOrder(ap)[i] = a

\* C19: find_suitable_agent returns none when no agent is eligible, and
\* otherwise an eligible agent of the highest score, the first registered
\* among those of that score.
C19_FindSuitableAgent ==
    last_call.op = "find_suitable_agent" =>
        LET eligible == EligibleAgents(agent_pool, last_call.arg)
            score(a) == calculate_agent_suitability_score(agent_pool[a], last_call.arg)
        IN  IF eligible = {} THEN last_call.result = "None"
            ELSE /\ last_call.result \in eligible
                 /\ \A b \in eligible :
                       /\ ~ FracLess(score(last_call.result), score(b))
                       /\ \/ FracLess(score(b), score(last_call.result))
                          \/ Rank(agent_pool, last_call.result) <= Rank(agent_pool, b)

\* C20: register_agent of a new id stores an Idle record whose metrics are
\* the defaults 1.0 / 1.0 / 1.0 unless the config carries metrics; of an id
\* that is registered already, it leaves the record as it was.
C20_RegisterAgent ==
    [][( /\ last_call'.op = "register_agent"
         /\ (agent_pool' # agent_pool \/ last_call' # last_call) ) =>
        LET a == last_call'.arg
        IN  IF a \in DOMAIN agent_pool
            THEN agent_pool'[a] = agent_pool[a]
            ELSE /\ agent_pool'[a].status = "idle"
                 /\ last_call'.detail = "no metrics" =>
                        agent_pool'[a].performance_metrics = DefaultMetrics]_vars

\* C21 (task id uniqueness): every schedule_task call stores its task under
\* an id that no earlier call issued, whether that task is still in the
\* table or was deleted by cleanup_completed_tasks, and leaves every record
\* of the table as it was.
C21_TaskIdUniqueness ==
    [][schedule_stats'.total_scheduled # schedule_stats.total_scheduled =>
        \E id \in DOMAIN tasks' :
            /\ id \notin DOMAIN calls
            /\ id \notin DOMAIN tasks
            /\ \A t \in DOMAIN tasks :
                  t \in DOMAIN tasks' /\ tasks'[t] = tasks[t]]_vars

\* C22 (failure isolation within a tick): when the execution of one task
\* of a tick's batch fails, the failure is written to that task alone and
\* the tick goes on waiting for the others; when the tick ends, every task
\* it submitted is terminal and every task of the batch was released, with
\* one worker handed back for each.
C22_FailureIsolation ==
    [][/\ \A t \in DOMAIN tasks :
            ( /\ tick.pc = "wait"
              /\ t \in Queued(tick.submitted)
              /\ tasks[t].status # FAILED
              /\ tasks'[t].status = FAILED )
            => ( /\ tasks'[t].error # "None"
                 /\ \A u \in DOMAIN tasks \ {t} : tasks'[u] = tasks[u]
                 /\ tick' = tick )
       /\ (tick.pc = "wait" /\ tick'.pc = "idle")
            => ( /\ \A t \in Queued(tick.submitted) : tasks'[t].status \in Terminal
                 /\ \A t \in Queued(tick.ready) :
                       calls'[t].released = calls[t].released + 1
                 /\ available_workers' = available_workers + Len(tick.ready) )]_vars

\* One task of a batch of two has failed while the other is still being
\* executed.
C22_Witness ==
    /\ tick.pc = "wait"
    /\ \E t \in Queued(tick.submitted), u \in Queued(tick.submitted) :
          /\ t # u
          /\ futures[t] = "done" /\ tasks[t].status = FAILED
          /\ futures[u] = "started" /\ tasks[u].status = RUNNING

\* C23 (stop drains before teardown): once stop_scheduler was called the
\* loop begins no tick; the executor is shut down only when every
\* submitted execution has finished; no task is submitted to an executor
\* that was shut down; and when stop_scheduler has returned no task is
\* Running.
C23_StopDrains ==
    [][/\ (scheduler.stop # "idle" /\ tick.pc = "idle") => tick'.pc = "idle"
       /\ scheduler'.executor = "shutdown" =>
             \A t \in DOMAIN futures' : futures'[t] = "done"
       /\ scheduler.executor # "open" =>
             \A t \in DOMAIN futures' :
                 futures'[t] = "submitted" =>
                     t \in DOMAIN futures /\ futures[t] = "submitted"
       /\ scheduler'.stop = "returned" => Running(tasks') = {}]_vars

\* The number of execute_task calls that have ended, over all tasks.
RECURSIVE FinishedCalls(_, _)
FinishedCalls(c, ids) ==
    IF ids = {} THEN 0
    ELSE LET t == CHOOSE u \in ids : TRUE
         IN  c[t].finished + FinishedCalls(c, ids \ {t})

\* C24 (no lost updates): in every state total_completed + total_failed is
\* the number of execute_task calls that have ended, and total_scheduled is
\* the number of schedule_task calls made.
C24_NoLostUpdates ==
    /\ schedule_stats.total_completed + schedule_stats.total_failed
          = FinishedCalls(calls, DOMAIN calls)
    /\ schedule_stats.total_scheduled = Cardinality(DOMAIN calls)

\* C25 (no task lost on allocation failure): when a tick ends, every task
\* it took from the queue and allocate_resources refused is Pending and
\* back in the queue.
C25_RefusedTaskRequeued ==
    [][(tick.pc = "wait" /\ tick'.pc = "idle") =>
        \A t \in Queued(tick.ready) \ Queued(tick.submitted) :
            /\ tasks'[t].status = PENDING
            /\ t \in Queued(task_queue')]_vars

\* C26 (FIFO within priority): of two queued tasks of equal priority, a
\* tick does not take the later submitted one from the queue while it
\* leaves the earlier one there, and when it submits the later one it has
\* submitted the earlier one before it.
C26_FifoWithinPriority ==
    [][TickStep =>
        \A A \in Queued(task_queue), B \in Queued(task_queue) :
            ( /\ A < B
              /\ tasks[A].priority = tasks[B].priority
              /\ B \notin Queued(task_queue') )
            => ( /\ A \notin Queued(task_queue')
                 /\ B \in Queued(tick'.submitted) =>
                       /\ A \in Queued(tick'.submitted)
                       /\ Position(tick'.submitted, A)
                             < Position(tick'.submitted, B) )]_vars

\* C27 (release_resources): the release loop at the end of a tick hands
\* back exactly one worker for every task of the batch; a task of the batch
\* that is Running becomes Completed and every other task keeps its status,
\* so that a Failed task is still Failed.
C27_ReleaseResources ==
    [][(tick.pc = "wait" /\ tick'.pc = "idle") =>
        /\ available_workers' = available_workers + Len(tick.ready)
        /\ \A t \in DOMAIN tasks :
              tasks'[t].status =
                 IF t \in Queued(tick.ready) /\ tasks[t].status = RUNNING
                 THEN COMPLETED ELSE tasks[t].status]_vars

\* A tick has ended in which one released task went from Running to
\* Completed, while another released task is Failed and a third, released
\* without having been allocated, is Pending.
C27_Witness ==
    /\ tick.pc = "idle"
    /\ \E t \in DOMAIN tasks, u \in DOMAIN tasks, v \in DOMAIN tasks :
          /\ calls[t].released = 1 /\ tasks[t].status = COMPLETED
          /\ calls[u].released = 1 /\ tasks[u].status = FAILED
          /\ calls[v].released = 1 /\ calls[v].allocated = 0
          /\ tasks[v].status = PENDING

\* C29 (completed_at): in every reachable state a task whose status is
\* Completed or Failed has completed_at set.
C29_TerminalHasCompletedAt ==
    \A t \in DOMAIN tasks :
        tasks[t].status \in {COMPLETED, FAILED} => tasks[t].completed_at # NoTime

\* C31 (error of a failed task): in every reachable state a task whose
\* status is Failed has an error that is neither None nor the empty string.
C31_FailedHasError ==
    \A t \in DOMAIN tasks :
        tasks[t].status = FAILED => tasks[t].error \notin {"None", ""}

\* The texts that tell of a timeout.
TimeoutErrors == {"Task timed out", TimeoutExpiredText}

\* C32 (timeout): when execute_with_threadpool ends for a task whose
\* execution has lasted longer than max_wait_time (the wait for it ran out,
\* or its process was stopped by the timeout), it returns success False and
\* the task is Failed with an error that tells of the timeout.
C32_Timeout ==
    [][\A t \in DOMAIN pool_calls :
          ( /\ pool_calls[t].caller = "waiting"
            /\ pool_calls'[t].caller # "waiting"
            /\ pool_calls[t].nested \in {"queued", "running", "TimeoutExpired"} )
          => /\ pool_calls'[t].caller = "False"
             /\ tasks'[t].status = FAILED
             /\ tasks'[t].error \in TimeoutErrors]_vars

\* The execution of task t has reported success: on the agent path, or by a
\* process (or a task without command) that came back from the pool.
ReportedSuccess(t) ==
    \/ calls[t].agent_path > 0
    \/ t \in DOMAIN pool_calls /\ pool_calls[t].nested = "result"

\* C33 (success criterion): a task is Completed only if its execution has
\* reported success (exit code zero on the pool path, success = true on the
\* agent path).
C33_SuccessCriterion ==
    \A t \in DOMAIN tasks : tasks[t].status = COMPLETED => ReportedSuccess(t)

C35_BoundedHistory ==
    [][\A a \in DOMAIN agent_pool :
          ( /\ last_call'.op = "update_agent_metrics"
            /\ last_call'.arg = a
            /\ last_call'.result = "None" )
          => LET h == agent_pool[a].task_history
                 h2 == agent_pool'[a].task_history
                 dropped == Len(h) + 1 - Len(h2)
             IN  /\ Len(h2) <= 50
                 /\ dropped = IF Len(h) < 50 THEN 0 ELSE 1
                 /\ \A i \in 1..(Len(h2) - 1) : h2[i] = h[i + dropped]]_vars

\* A call has appended to a history of 50 entries, and the one failure of
\* the history is neither its first nor its last entry.
C35_Witness ==
    /\ last_call.op = "update_agent_metrics"
    /\ last_call.detail = "trimmed"
    /\ LET h == agent_pool[last_call.arg].task_history
       IN  /\ Len(h) = 50
           /\ \E i \in 2..49 : ~ h[i]

\* C36 (running average): a step that reports the execution time x of one
\* more completed task, n tasks having completed before it, leaves
\* average_execution_time at (n * old average + x) / (n + 1), the mean of
\* the n + 1 execution times; after the first task it is x.
C36_RunningAverage ==
    [][( /\ last_call'.op \in {"execute_task", "update_average_execution_time"}
         /\ <<schedule_stats, last_call>>' # <<schedule_stats, last_call>> )
       => LET n == schedule_stats.total_completed
              old == schedule_stats.average_execution_time
              new == schedule_stats'.average_execution_time
              x == last_call'.arg
          IN  new.n * old.d * (n + 1) = (old.n * n + x * old.d) * new.d]_vars

\* C37 (admission within the worker budget): a tick takes no more tasks
\* from the queue as ready than there are worker slots available when it
\* begins, and allocate_resources accepts every task it took.
C37_AdmissionWithinBudget ==
    [][(tick.pc = "idle" /\ tick'.pc = "wait")
       => /\ Len(tick'.ready) <= available_workers
          /\ tick'.submitted = tick'.ready]_vars

\* The tasks of the list execute_parallel_tasks is working on.
Submitted == { t \in DOMAIN tasks : client.first <= t /\ t <= client.last }

\* A step with which execute_parallel_tasks returns its dict.
EptReturns == client.pc = "ept_loop" /\ client'.returned # <<>>

\* C39 (execute_parallel_tasks ends with all tasks settled): when
\* execute_parallel_tasks returns, every task of its list is Completed or
\* Failed, and the completed_tasks it reports is the length of the list.
C39_AllTerminalAtReturn ==
    [][EptReturns =>
        /\ \A t \in Submitted : tasks'[t].status \in {COMPLETED, FAILED}
        /\ client'.returned[1].completed_tasks = Cardinality(Submitted)]_vars

\* C40 (failed_tasks and task_results): the failed_tasks that
\* execute_parallel_tasks returns is the number of tasks of its list whose
\* status is Failed, and task_results has one entry for each task of the
\* list.
C40_FailedTasksCount ==
    [][EptReturns =>
        LET r == client'.returned[1]
        IN  /\ r.failed_tasks =
                 Cardinality({ t \in Submitted : tasks'[t].status = FAILED })
            /\ Len(r.task_results) = Cardinality(Submitted)
            /\ \A i \in 1..Len(r.task_results) :
                   r.task_results[i].task_id \in Submitted]_vars

====
